---- MODULE Spec2Model ----
(***************************************************************************)
(* Model of src/plugins/weather_custom/weather_custom.py (class Weather).  *)
(*                                                                         *)
(* Conventions                                                             *)
(*  - A Python optional value is a sequence: <<>> is None / absent and     *)
(*    <<v>> is the value v.                                                *)
(*  - A float with one decimal place is the integer number of tenths       *)
(*    (52.5 is 525); str() / int() / round() are computed on that.         *)
(*  - A timezone is a name with a fixed UTC offset in whole hours.         *)
(*  - A naive local datetime is [day, hour, minute]; a date is a day       *)
(*    ordinal at midnight.                                                 *)
(*  - A method's outcome is [exc |-> "" or the exception, val |-> value].  *)
(*  - A JSON value is a tagged record [t |-> "null" | "bool" | "num" |     *)
(*    "nan" | "str" | "list" | "dict", v |-> payload]; a dict's payload is *)
(*    a function on its keys; "nan" is the float NaN json.loads accepts.   *)
(***************************************************************************)
EXTENDS Integers, Sequences, FiniteSets, TLC

VARIABLES pc, settings, device_config, host_tz, http_log, weather_data,
          air_quality_data, template_params, render_calls, image, error,
          arg, ret

vars == <<pc, settings, device_config, host_tz, http_log, weather_data,
          air_quality_data, template_params, render_calls, image, error,
          arg, ret>>

pipeline_vars == <<settings, device_config, http_log, weather_data,
                   air_quality_data, template_params, render_calls, image,
                   error>>

(***************************************************************************)
(* Bounds of the model                                                     *)
(***************************************************************************)
MaxDays == 7
MaxCode == 101
MaxAqi == 90

None == <<>>
Some(v) == <<v>>
Ok(v) == [exc |-> "", val |-> v]
Raise(e) == [exc |-> e, val |-> None]

(***************************************************************************)
(* Module-level constants of the plugin                                    *)
(***************************************************************************)
OPEN_METEO_URL(lat, long) ==
    "https://api.open-meteo.com/v1/forecast?"
    \o "latitude=" \o lat \o "&longitude=" \o long
    \o "&current=temperature_2m,relative_humidity_2m,precipitation,rain,wind_speed_10m,"
    \o "wind_direction_10m,pressure_msl"
    \o "&daily=temperature_2m_max,temperature_2m_min,sunrise,sunset,weathercode,uv_index_max"
    \o "&hourly=temperature_2m,rain"
    \o "&timezone=auto"

AIR_QUALITY_URL(lat, long) ==
    "https://air-quality-api.open-meteo.com/v1/air-quality?"
    \o "latitude=" \o lat \o "&longitude=" \o long
    \o "&hourly=european_aqi&timezone=auto"

\* variant of the table: the freezing-rain codes 66 and 67 left out
WEATHER_CODE_ICONS_without_freezing_rain ==
    (0 :> "01d") @@ (1 :> "02d") @@ (2 :> "03d") @@ (3 :> "04d") @@
    (45 :> "50d") @@ (48 :> "50d") @@
    (51 :> "09d") @@ (53 :> "09d") @@ (55 :> "09d") @@ (56 :> "09d") @@ (57 :> "09d") @@
    (61 :> "10d") @@ (63 :> "10d") @@ (65 :> "10d") @@
    (71 :> "13d") @@ (73 :> "13d") @@ (75 :> "13d") @@ (77 :> "13d") @@
    (80 :> "09d") @@ (81 :> "09d") @@ (82 :> "09d") @@
    (85 :> "13d") @@ (86 :> "13d") @@
    (95 :> "11d") @@ (96 :> "11d") @@ (99 :> "11d")

WEATHER_CODE_ICONS ==
    (0 :> "01d") @@ (1 :> "02d") @@ (2 :> "03d") @@ (3 :> "04d") @@
    (45 :> "50d") @@ (48 :> "50d") @@
    (51 :> "09d") @@ (53 :> "09d") @@ (55 :> "09d") @@ (56 :> "09d") @@ (57 :> "09d") @@
    (61 :> "10d") @@ (63 :> "10d") @@ (65 :> "10d") @@
    (66 :> "13d") @@ (67 :> "13d") @@
    (71 :> "13d") @@ (73 :> "13d") @@ (75 :> "13d") @@ (77 :> "13d") @@
    (80 :> "09d") @@ (81 :> "09d") @@ (82 :> "09d") @@
    (85 :> "13d") @@ (86 :> "13d") @@
    (95 :> "11d") @@ (96 :> "11d") @@ (99 :> "11d")

(***************************************************************************)
(* Python built-ins used by the plugin                                     *)
(***************************************************************************)
Abs(n) == IF n < 0 THEN -n ELSE n

Digit(d) == CASE d = 0 -> "0" [] d = 1 -> "1" [] d = 2 -> "2" [] d = 3 -> "3"
              [] d = 4 -> "4" [] d = 5 -> "5" [] d = 6 -> "6" [] d = 7 -> "7"
              [] d = 8 -> "8" [] d = 9 -> "9"

RECURSIVE DecStr(_)
\* decimal digits of a natural number
DecStr(n) == IF n < 10 THEN Digit(n) ELSE DecStr(n \div 10) \o Digit(n % 10)

\* str() of a float held in tenths: sign, integer part, point, one decimal
FloatStr(t) == (IF t < 0 THEN "-" ELSE "") \o DecStr(Abs(t) \div 10)
               \o "." \o Digit(Abs(t) % 10)

\* "{x}".format(x=...) of an optional float
FormatField(opt) == IF opt = None THEN "None" ELSE FloatStr(opt[1])

\* two-digit zero-padded field of strftime
TwoDigits(n) == Digit(n \div 10) \o Digit(n % 10)

\* dict.get(key, default)
DictGet(d, key, default) == IF key \in DOMAIN d THEN d[key] ELSE default

\* dict.get(key) on the settings dict
SettingsGet(s, key) == IF key \in DOMAIN s THEN Some(s[key]) ELSE None

\* truth value of an optional float: None and 0.0 are false
Truthy(opt) == opt # None /\ opt[1] # 0

\* int() of a float held in tenths: truncation toward zero
IntOf(t) == IF t < 0 THEN -((-t) \div 10) ELSE t \div 10

\* round() of a float held in tenths: nearest integer (no tie is possible
\* except at 5 tenths, resolved to the even neighbour)
RoundOf(t) ==
    LET f == t \div 10
        r == t % 10
    IN  IF r < 5 THEN f
        ELSE IF r > 5 THEN f + 1
        ELSE IF f % 2 = 0 THEN f ELSE f + 1

(***************************************************************************)
(* Timezones (pytz.timezone) and datetime                                  *)
(***************************************************************************)
TZ_OFFSETS == ("UTC" :> 0) @@ ("Europe/Berlin" :> 1) @@ ("America/New_York" :> -5)

TimezoneNames == DOMAIN TZ_OFFSETS

\* datetime.fromisoformat(naive).astimezone(tz): a naive datetime is read in
\* the system timezone of the host, then converted to tz
AsTimezone(dt, tz, host) ==
    LET total == (dt.day * 24 + dt.hour) * 60 + dt.minute
                 + (TZ_OFFSETS[tz] - TZ_OFFSETS[host]) * 60
    IN  [day |-> total \div 1440, hour |-> (total % 1440) \div 60,
         minute |-> total % 60]

\* strftime('%I'): hour on the 12-hour clock
Hour12(h) == IF h % 12 = 0 THEN 12 ELSE h % 12

\* strftime('%I:%M')
StrfIM(dt) == TwoDigits(Hour12(dt.hour)) \o ":" \o TwoDigits(dt.minute)

\* strftime('%p')
StrfP(dt) == IF dt.hour < 12 THEN "AM" ELSE "PM"

\* strftime('%-I %p')
StrfIp(dt) == DecStr(Hour12(dt.hour)) \o " " \o StrfP(dt)

\* strftime('%a'); day ordinal 0 is a Monday
StrfA(dt) == CASE dt.day % 7 = 0 -> "Mon" [] dt.day % 7 = 1 -> "Tue"
               [] dt.day % 7 = 2 -> "Wed" [] dt.day % 7 = 3 -> "Thu"
               [] dt.day % 7 = 4 -> "Fri" [] dt.day % 7 = 5 -> "Sat"
               [] dt.day % 7 = 6 -> "Sun"


RECURSIVE LStrip0(_)
\* str.lstrip("0")
LStrip0(s) == IF Len(s) > 0 /\ SubSeq(s, 1, 1) = "0"
              THEN LStrip0(SubSeq(s, 2, Len(s))) ELSE s

\* seq[i] with Python's 0-based index
At(seq, i) == seq[i + 1]

Min(a, b) == IF a < b THEN a ELSE b

\* range(a, b)
Range(a, b) == a .. (b - 1)

\* BasePlugin.get_plugin_dir(path): the path below the plugin's directory
get_plugin_dir(path) == "plugins/weather_custom/" \o path

(***************************************************************************)
(* JSON values of the air-quality response                                 *)
(***************************************************************************)
JNull == [t |-> "null", v |-> None]
JNum(n) == [t |-> "num", v |-> n]
JBool(b) == [t |-> "bool", v |-> b]
JNaN == [t |-> "nan", v |-> None]
JStr(s) == [t |-> "str", v |-> s]
JList(l) == [t |-> "list", v |-> l]
JDict(d) == [t |-> "dict", v |-> d]

\* truth value of a JSON value (if air_quality:)
JTruthy(j) == CASE j.t = "null" -> FALSE
                [] j.t = "bool" -> j.v
                [] j.t = "num" -> j.v # 0
                [] j.t = "nan" -> TRUE
                [] j.t = "str" -> Len(j.v) > 0
                [] j.t = "list" -> Len(j.v) > 0
                [] j.t = "dict" -> DOMAIN j.v # {}

\* j[key] for a string key
GetItemKey(j, key) ==
    IF j.t = "dict"
    THEN IF key \in DOMAIN j.v THEN Ok(j.v[key]) ELSE Raise("KeyError")
    ELSE Raise("TypeError")

\* j[0]
GetItemFirst(j) ==
    CASE j.t = "list" -> IF Len(j.v) > 0 THEN Ok(j.v[1]) ELSE Raise("IndexError")
      [] j.t = "str" -> IF Len(j.v) > 0 THEN Ok(JStr(SubSeq(j.v, 1, 1)))
                        ELSE Raise("IndexError")
      [] j.t = "dict" -> Raise("KeyError")
      [] OTHER -> Raise("TypeError")

(***************************************************************************)
(* Weather.get_aqi_description                                             *)
(***************************************************************************)
\* variant: exclusive upper bounds
AqiBand_exclusive(t) ==
    IF t < 200 THEN "Good"
    ELSE IF t < 400 THEN "Fair"
    ELSE IF t < 600 THEN "Moderate"
    ELSE IF t < 800 THEN "Poor"
    ELSE "Very Poor"

\* the if/elif chain on a number held in tenths
AqiBand(t) ==
    IF t <= 200 THEN "Good"
    ELSE IF t <= 400 THEN "Fair"
    ELSE IF t <= 600 THEN "Moderate"
    ELSE IF t <= 800 THEN "Poor"
    ELSE "Very Poor"

\* aqi is a JSON value: a number is compared as it is, a bool as 1 or 0,
\* every comparison with NaN is false, anything else cannot be compared
\* with an int
get_aqi_description(aqi) ==
    CASE aqi.t = "num" -> Ok(AqiBand(aqi.v))
      [] aqi.t = "bool" -> Ok(AqiBand(IF aqi.v THEN 10 ELSE 0))
      [] aqi.t = "nan" -> Ok("Very Poor")
      [] OTHER -> Raise("TypeError")

\* int(aqi) of a JSON value
JInt(j) ==
    CASE j.t = "num" -> Ok(IntOf(j.v))
      [] j.t = "bool" -> Ok(IF j.v THEN 1 ELSE 0)
      [] j.t = "nan" -> Raise("ValueError")
      [] OTHER -> Raise("TypeError")

(***************************************************************************)
(* Weather.parse_forecast                                                  *)
(***************************************************************************)
\* variant: another default icon
IconFor_cloudy_default(code) == DictGet(WEATHER_CODE_ICONS, code, "02d")

\* WEATHER_CODE_ICONS.get(code, "01d")
IconFor(code) == DictGet(WEATHER_CODE_ICONS, code, "01d")

\* the body of the loop for daily index i
ForecastEntry(daily, tz, host, i) ==
    LET dt == AsTimezone([day |-> At(daily.time, i), hour |-> 0, minute |-> 0],
                         tz, host)
        icon == IconFor(At(daily.weathercode, i))
    IN  [day |-> StrfA(dt),
         high |-> IntOf(At(daily.temperature_2m_max, i)),
         low |-> IntOf(At(daily.temperature_2m_min, i)),
         icon |-> get_plugin_dir("icons/" \o icon \o ".png")]

\* variant: the loop starts at today's index
parse_forecast_from_today(daily, tz, host) ==
    LET lo == 0
        hi == Min(Len(daily.time), 6)
        count == IF hi > lo THEN hi - lo ELSE 0
    IN  Ok([j \in 1 .. count |-> ForecastEntry(daily, tz, host, lo + j - 1)])

\* for i in range(1, min(len(daily["time"]), 6))
parse_forecast(daily, tz, host) ==
    LET lo == 1
        hi == Min(Len(daily.time), 6)
        count == IF hi > lo THEN hi - lo ELSE 0
        short == \E i \in Range(lo, hi) :
                    \/ i >= Len(daily.weathercode)
                    \/ i >= Len(daily.temperature_2m_max)
                    \/ i >= Len(daily.temperature_2m_min)
    IN  IF short THEN Raise("IndexError")
        ELSE Ok([j \in 1 .. count |-> ForecastEntry(daily, tz, host, lo + j - 1)])

(***************************************************************************)
(* Weather.parse_hourly                                                    *)
(***************************************************************************)
parse_hourly(hourly, tz, host) ==
    IF \/ Len(hourly.time) < 24
       \/ Len(hourly.temperature_2m) < 24
       \/ Len(hourly.rain) < 24
    THEN Raise("IndexError")
    ELSE Ok([j \in 1 .. 24 |->
               [time |-> StrfIp(AsTimezone(hourly.time[j], tz, host)),
                temperature |-> RoundOf(hourly.temperature_2m[j]),
                precipitiation |-> hourly.rain[j]]])

(***************************************************************************)
(* Weather.parse_data_points                                               *)
(***************************************************************************)
\* the try block, statement by statement; each step takes the outcome of
\* the one before it and passes an exception on to the except clause
AqiPointMade(aqi, aqi_label, measurement) ==
    IF measurement.exc # "" THEN measurement
    ELSE Ok([label |-> "Air Quality",
             measurement |-> measurement.val,
             unit |-> aqi_label.val,
             icon |-> get_plugin_dir("icons/aqi.png")])

AqiPointLabelled(aqi, aqi_label) ==
    IF aqi_label.exc # "" THEN aqi_label
    ELSE AqiPointMade(aqi, aqi_label, JInt(aqi.val))

AqiPointOfFirst(aqi) ==
    IF aqi.exc # "" THEN aqi
    ELSE AqiPointLabelled(aqi, get_aqi_description(aqi.val))

AqiPointOfSeries(series) ==
    IF series.exc # "" THEN series ELSE AqiPointOfFirst(GetItemFirst(series.val))

AqiPointOfHourly(hourly) ==
    IF hourly.exc # "" THEN hourly
    ELSE AqiPointOfSeries(GetItemKey(hourly.val, "european_aqi"))

\* the appended point, or the exception the except clause catches
AqiPoint(air_quality) == AqiPointOfHourly(GetItemKey(air_quality, "hourly"))

\* the seven fixed points
BasePoints(current, daily, tz, host) ==
    LET sunrise_dt == AsTimezone(At(daily.sunrise, 0), tz, host)
        sunset_dt == AsTimezone(At(daily.sunset, 0), tz, host)
    IN  << [label |-> "Sunrise", measurement |-> LStrip0(StrfIM(sunrise_dt)),
            unit |-> StrfP(sunrise_dt),
            icon |-> get_plugin_dir("icons/sunrise.png")],
           [label |-> "Sunset", measurement |-> LStrip0(StrfIM(sunset_dt)),
            unit |-> StrfP(sunset_dt),
            icon |-> get_plugin_dir("icons/sunset.png")],
           [label |-> "Wind", measurement |-> RoundOf(current.wind_speed_10m),
            unit |-> "km/h", icon |-> get_plugin_dir("icons/wind.png")],
           [label |-> "Humidity", measurement |-> current.relative_humidity_2m,
            unit |-> "%", icon |-> get_plugin_dir("icons/humidity.png")],
           [label |-> "Pressure", measurement |-> current.pressure_msl,
            unit |-> "hPa", icon |-> get_plugin_dir("icons/pressure.png")],
           [label |-> "UV Index", measurement |-> At(daily.uv_index_max, 0),
            unit |-> "", icon |-> get_plugin_dir("icons/uvi.png")],
           [label |-> "Rain", measurement |-> current.rain,
            unit |-> "mm", icon |-> get_plugin_dir("icons/rain.png")] >>

\* variant: no try/except around the AQI extraction
WithAirQuality_no_except(base, present, point) ==
    IF ~present THEN Ok(base)
    ELSE IF point.exc # "" THEN point
    ELSE Ok(Append(base, point.val))

\* lines 175-188: the guard, the try/except and the return
WithAirQuality(base, present, point) ==
    IF present /\ point.exc = "" THEN Ok(Append(base, point.val)) ELSE Ok(base)

parse_data_points(current, daily, tz, host, air_quality) ==
    IF \/ Len(daily.sunrise) = 0
       \/ Len(daily.sunset) = 0
       \/ Len(daily.uv_index_max) = 0
    THEN Raise("IndexError")
    ELSE WithAirQuality(BasePoints(current, daily, tz, host),
                        JTruthy(air_quality), AqiPoint(air_quality))

(***************************************************************************)
(* Weather.parse_weather_data                                              *)
(***************************************************************************)
\* the returned dict, or the first exception of the calls that build it
TemplateDict(current_day_icon, forecast, hourly_forecast, data_points) ==
    IF forecast.exc # "" THEN forecast
    ELSE IF hourly_forecast.exc # "" THEN hourly_forecast
    ELSE IF data_points.exc # "" THEN data_points
    ELSE Ok([units |-> "metric",
             current_day_icon |-> current_day_icon,
             forecast |-> forecast.val,
             hourly_forecast |-> hourly_forecast.val,
             data_points |-> data_points.val])

parse_weather_data(data, air_quality, tz, host) ==
    IF Len(data.daily.weathercode) = 0 THEN Raise("IndexError")
    ELSE TemplateDict(
            get_plugin_dir("icons/" \o IconFor(At(data.daily.weathercode, 0)) \o ".png"),
            parse_forecast(data.daily, tz, host),
            parse_hourly(data.hourly, tz, host),
            parse_data_points(data.current, data.daily, tz, host, air_quality))

(***************************************************************************)
(* Weather.get_weather_data, Weather.get_air_quality, Weather.generate_image*)
(***************************************************************************)
\* variant of the check: "and" in place of "or"
MissingCoordinates_and(lat, long) == ~Truthy(lat) /\ ~Truthy(long)

\* if not lat or not long
MissingCoordinates(lat, long) == ~Truthy(lat) \/ ~Truthy(long)

\* variant: the status of the forecast response is not checked
get_weather_data_unchecked(ok, body) == Ok(body)

\* variant: a failed air-quality response raises like a failed forecast
get_air_quality_raises(ok, body) ==
    IF ~ok THEN Raise("Failed to fetch air quality data.") ELSE Ok(body)

\* the outcome of get_weather_data for a response with status ok and a body
get_weather_data(ok, body) ==
    IF ~ok THEN Raise("Failed to fetch weather data.") ELSE Ok(body)

\* the outcome of get_air_quality for a response with status ok and a body
get_air_quality(ok, body) ==
    IF ~ok THEN Ok(JNull) ELSE Ok(body)

\* device_config.get_resolution(), reversed when the orientation is vertical
Dimensions(dc) ==
    IF dc.orientation = "vertical"
    THEN <<dc.resolution[2], dc.resolution[1]>> ELSE dc.resolution

\* weather_data.get("timezone", device_config.get_config("timezone", default="UTC"))
TimezoneStr(data, dc) ==
    IF data.timezone # None THEN data.timezone[1]
    ELSE IF dc.timezone # None THEN dc.timezone[1] ELSE "UTC"

\* line 59: template_params["plugin_settings"] = settings
WithPluginSettings(parsed, s) ==
    IF parsed.exc # "" THEN parsed
    ELSE Ok([plugin_settings |-> s] @@ parsed.val)

\* pytz.timezone(timezone_str), then lines 58-59
TemplateParamsIn(timezone_str, data, air_quality, s, host) ==
    IF timezone_str \notin TimezoneNames THEN Raise("UnknownTimeZoneError")
    ELSE WithPluginSettings(parse_weather_data(data, air_quality, timezone_str, host), s)

\* lines 55-59 of generate_image: resolve the timezone, build the template
\* parameters, attach the settings
BuildTemplateParams(data, air_quality, dc, s, host) ==
    TemplateParamsIn(TimezoneStr(data, dc), data, air_quality, s, host)

(***************************************************************************)
(* Inputs: responses of the two endpoints, settings, device configuration  *)
(***************************************************************************)
\* the "current" object of a forecast response
SampleCurrent ==
    [time |-> [day |-> 3, hour |-> 14, minute |-> 30],
     temperature_2m |-> 187, wind_speed_10m |-> 125,
     relative_humidity_2m |-> 64, pressure_msl |-> 10132, rain |-> 0]

\* the "daily" object: n days from day ordinal start, the given weather
\* codes, sunrise and sunset times, highs rising from base tenths
MakeDaily(n, start, codes, base, sunrise, sunset) ==
    [time |-> [i \in 1 .. n |-> start + i - 1],
     weathercode |-> codes,
     temperature_2m_max |-> [i \in 1 .. n |-> base + 13 * (i - 1)],
     temperature_2m_min |-> [i \in 1 .. n |-> base + 13 * (i - 1) - 76],
     sunrise |-> [i \in 1 .. n |->
                    [day |-> start + i - 1, hour |-> sunrise[1], minute |-> sunrise[2]]],
     sunset |-> [i \in 1 .. n |->
                    [day |-> start + i - 1, hour |-> sunset[1], minute |-> sunset[2]]],
     uv_index_max |-> [i \in 1 .. n |-> 30 + i]]

\* the "hourly" object with len entries
MakeHourly(len, start) ==
    [time |-> [i \in 1 .. len |->
                 [day |-> start + (i - 1) \div 24, hour |-> (i - 1) % 24, minute |-> 0]],
     temperature_2m |-> [i \in 1 .. len |-> 120 + 3 * i],
     rain |-> [i \in 1 .. len |-> i % 3]]

\* a forecast response
MakeResponse(tzopt, daily, hlen) ==
    [timezone |-> tzopt, latitude |-> 525, longitude |-> 134,
     current |-> SampleCurrent, daily |-> daily, hourly |-> MakeHourly(hlen, 3)]

\* weather codes of a sample week
SampleCodes(n) == [i \in 1 .. n |-> IF i % 2 = 1 THEN 61 ELSE 100]

\* the forecast responses of the pipeline: with and without a timezone, with
\* an unknown timezone, with an empty daily series, with a short hourly series
ForecastResponses ==
    { MakeResponse(tzopt,
                   MakeDaily(n, 3, SampleCodes(n), 187, <<6, 5>>, <<17, 42>>),
                   hlen) :
        tzopt \in {None, Some("Europe/Berlin"), Some("Mars/Base")},
        n \in {0, MaxDays}, hlen \in {23, 24} }

\* a well-formed air-quality response whose first AQI value is first
AqValid(first) ==
    JDict([hourly |-> JDict([time |-> JList(<< >>),
                             european_aqi |-> JList(<<first, JNum(310)>>)])])

\* air-quality arguments without an extractable number: None, empty dict,
\* no 'hourly', 'hourly' null, 'hourly' a list, no 'european_aqi',
\* empty series, series null, null first value, non-numeric first value,
\* a list as first value, a list instead of a dict, a string instead of a
\* dict, a string as series, NaN as first value
AqMalformed ==
    << JNull,
       JDict(<< >>),
       JDict([latitude |-> JNum(525)]),
       JDict([hourly |-> JNull]),
       JDict([hourly |-> JList(<<JNum(450)>>)]),
       JDict([hourly |-> JDict([time |-> JList(<< >>)])]),
       JDict([hourly |-> JDict([european_aqi |-> JList(<< >>)])]),
       JDict([hourly |-> JDict([european_aqi |-> JNull])]),
       AqValid(JNull),
       AqValid(JStr("n/a")),
       AqValid(JList(<<JNum(450)>>)),
       JList(<<JNum(450)>>),
       JStr("error"),
       JDict([hourly |-> JDict([european_aqi |-> JStr("45")])]),
       AqValid(JNaN) >>

\* air-quality responses whose first AQI value is a JSON boolean, which
\* Python compares and converts as the integer 1 or 0
AqBoolean == << AqValid(JBool(TRUE)), AqValid(JBool(FALSE)) >>

\* the air-quality responses of the pipeline
AirQualityResponses ==
    << AqValid(JNum(200)), AqValid(JNum(455)), AqMalformed[2], AqMalformed[3],
       AqMalformed[7], AqMalformed[9] >>

\* AQI values in tenths
AqiValues == -20 .. (MaxAqi * 10)

\* weather codes
Codes == -3 .. MaxCode

\* the settings dict with the given optional entries
MakeSettings(latopt, longopt) ==
    CASE latopt # None /\ longopt # None ->
            [latitude |-> latopt[1], longitude |-> longopt[1]]
      [] latopt # None /\ longopt = None -> [latitude |-> latopt[1]]
      [] latopt = None /\ longopt # None -> [longitude |-> longopt[1]]
      [] OTHER -> << >>

LatitudeInputs == {None, Some(-900), Some(0), Some(525), Some(900)}
LongitudeInputs == {None, Some(-1800), Some(0), Some(134), Some(1800)}

DeviceConfigs ==
    { [resolution |-> <<800, 480>>, orientation |-> o, timezone |-> tzopt] :
        o \in {"horizontal", "vertical"},
        tzopt \in {None, Some("America/New_York")} }

(***************************************************************************)
(* generate_image as a process: one step per call it makes                 *)
(***************************************************************************)
Init ==
    /\ pc = "idle"
    /\ settings = << >>
    /\ device_config = None
    /\ host_tz \in TimezoneNames
    /\ http_log = << >>
    /\ weather_data = None
    /\ air_quality_data = JNull
    /\ template_params = None
    /\ render_calls = << >>
    /\ image = None
    /\ error = ""
    /\ arg = None
    /\ ret = None

\* lines 43-46: read the coordinates, fail when one is missing
GenerateImage ==
    /\ pc = "idle"
    /\ \E latopt \in LatitudeInputs, longopt \in LongitudeInputs,
          dc \in DeviceConfigs :
          /\ settings' = MakeSettings(latopt, longopt)
          /\ device_config' = dc
    /\ IF MissingCoordinates(SettingsGet(settings', "latitude"),
                             SettingsGet(settings', "longitude"))
       THEN /\ pc' = "raised"
            /\ error' = "Latitude and Longitude are required."
       ELSE /\ pc' = "get_weather_data"
            /\ error' = error
    /\ UNCHANGED <<host_tz, http_log, weather_data, air_quality_data,
                   template_params, render_calls, image, arg, ret>>

\* line 48 and get_weather_data
GetWeatherData ==
    /\ pc = "get_weather_data"
    /\ \E ok \in BOOLEAN, body \in ForecastResponses :
          LET url == OPEN_METEO_URL(FormatField(SettingsGet(settings, "latitude")),
                                    FormatField(SettingsGet(settings, "longitude")))
              r == get_weather_data(ok, body)
          IN  /\ http_log' = Append(http_log, [url |-> url, ok |-> ok])
              /\ IF r.exc # ""
                 THEN /\ pc' = "raised"
                      /\ error' = r.exc
                      /\ weather_data' = weather_data
                 ELSE /\ pc' = "get_air_quality"
                      /\ error' = error
                      /\ weather_data' = Some(r.val)
    /\ UNCHANGED <<settings, device_config, host_tz, air_quality_data,
                   template_params, render_calls, image, arg, ret>>

\* line 49 and get_air_quality
GetAirQuality ==
    /\ pc = "get_air_quality"
    /\ \E ok \in BOOLEAN :
          \E i \in DOMAIN AirQualityResponses :
          LET body == AirQualityResponses[i]
              url == AIR_QUALITY_URL(FormatField(SettingsGet(settings, "latitude")),
                                     FormatField(SettingsGet(settings, "longitude")))
              r == get_air_quality(ok, body)
          IN  /\ http_log' = Append(http_log, [url |-> url, ok |-> ok])
              /\ IF r.exc # ""
                 THEN /\ pc' = "raised"
                      /\ error' = r.exc
                      /\ air_quality_data' = air_quality_data
                 ELSE /\ pc' = "parse_weather_data"
                      /\ error' = error
                      /\ air_quality_data' = r.val
    /\ UNCHANGED <<settings, device_config, host_tz, weather_data,
                   template_params, render_calls, image, arg, ret>>

\* lines 51-59: dimensions, timezone, parse_weather_data
ParseWeatherData ==
    /\ pc = "parse_weather_data"
    /\ \E r \in {BuildTemplateParams(weather_data[1], air_quality_data,
                                     device_config, settings, host_tz)} :
          IF r.exc # ""
          THEN /\ pc' = "raised"
               /\ error' = r.exc
               /\ template_params' = template_params
          ELSE /\ pc' = "render_image"
               /\ error' = error
               /\ template_params' = Some(r.val)
    /\ UNCHANGED <<settings, device_config, host_tz, http_log, weather_data,
                   air_quality_data, render_calls, image, arg, ret>>

\* lines 61-64: the renderer returns an image or nothing
RenderImage ==
    /\ pc = "render_image"
    /\ render_calls' = Append(render_calls,
                              [dimensions |-> Dimensions(device_config),
                               html |-> "weather.html", css |-> "weather.css"])
    /\ \E img \in {None, Some("image")} :
          /\ image' = img
          /\ IF img = None
             THEN /\ pc' = "raised"
                  /\ error' = "Failed to take screenshot, please check logs."
             ELSE /\ pc' = "returned"
                  /\ error' = error
    /\ UNCHANGED <<settings, device_config, host_tz, http_log, weather_data,
                   air_quality_data, template_params, arg, ret>>

Next == GenerateImage \/ GetWeatherData \/ GetAirQuality \/ ParseWeatherData
        \/ RenderImage

Spec == Init /\ [][Next]_vars

(***************************************************************************)
(* Properties of generate_image                                            *)
(***************************************************************************)
InputErrorMessage == "Latitude and Longitude are required."
FetchErrorMessage == "Failed to fetch weather data."
RenderErrorMessage == "Failed to take screenshot, please check logs."

HasPrefix(str, prefix) ==
    Len(str) >= Len(prefix) /\ SubSeq(str, 1, Len(prefix)) = prefix

IsForecastRequest(r) == HasPrefix(r.url, "https://api.open-meteo.com/v1/forecast?")
IsAirQualityRequest(r) ==
    HasPrefix(r.url, "https://air-quality-api.open-meteo.com/v1/air-quality?")

Labels(points) == [i \in DOMAIN points |-> points[i].label]

\* C1: when settings has no 'latitude' or no 'longitude', the call has failed
\* with the input error, no HTTP request has been issued and the renderer has
\* not been invoked.
C1_MissingCoordinatesFailFirst ==
    (pc # "idle" /\ ~({"latitude", "longitude"} \subseteq DOMAIN settings))
    => /\ pc = "raised"
       /\ error = InputErrorMessage
       /\ http_log = << >>
       /\ render_calls = << >>
       /\ image = None

C1_Witness ==
    /\ pc = "raised"
    /\ "latitude" \notin DOMAIN settings
    /\ "longitude" \in DOMAIN settings
    /\ error = InputErrorMessage

\* C2: the forecast request is issued exactly once and first, the air-quality
\* request at most once and second; after a non-success forecast response the
\* call has failed with the fetch error, no air-quality request was issued,
\* the renderer was not invoked and there is no image.
C2_ForecastOnceFirstAndFatal ==
    /\ Len(http_log) <= 2
    /\ Len(http_log) >= 1 => IsForecastRequest(http_log[1])
    /\ Len(http_log) = 2 => IsAirQualityRequest(http_log[2])
    /\ pc \in {"get_air_quality", "parse_weather_data", "render_image", "returned"}
       => Len(http_log) >= 1
    /\ (pc = "raised" /\ error # InputErrorMessage) => Len(http_log) >= 1
    /\ pc \in {"parse_weather_data", "render_image", "returned"}
       => Len(http_log) = 2
    /\ (Len(http_log) >= 1 /\ ~http_log[1].ok)
       => /\ pc = "raised"
          /\ error = FetchErrorMessage
          /\ Len(http_log) = 1
          /\ render_calls = << >>
          /\ image = None

C2_Witness ==
    /\ pc = "raised"
    /\ Len(http_log) = 1
    /\ ~http_log[1].ok
    /\ error = FetchErrorMessage

\* the forecast response can be presented: known timezone, a current day,
\* 24 hourly entries
ForecastPresentable ==
    /\ weather_data # None
    /\ TimezoneStr(weather_data[1], device_config) \in TimezoneNames
    /\ Len(weather_data[1].daily.time) >= 1
    /\ Len(weather_data[1].hourly.time) >= 24

AirQualityFetchFailed ==
    /\ Len(http_log) = 2
    /\ http_log[1].ok
    /\ ~http_log[2].ok

\* C3: after a successful forecast request and a non-success air-quality
\* response, the air-quality data is None, the data points handed to the
\* renderer have no "Air Quality" entry, and the call does not fail because
\* of it: with a presentable forecast it reaches the renderer.
C3_AirQualityFailureTolerated ==
    AirQualityFetchFailed
    => /\ air_quality_data.t = "null"
       /\ pc \in {"parse_weather_data", "render_image", "returned", "raised"}
       /\ template_params # None
          => \A i \in DOMAIN template_params[1].data_points :
                template_params[1].data_points[i].label # "Air Quality"
       /\ pc = "raised"
          => \/ error = RenderErrorMessage /\ Len(render_calls) = 1
             \/ error \in {"IndexError", "UnknownTimeZoneError"}
                /\ ~ForecastPresentable
       /\ (ForecastPresentable /\ pc # "parse_weather_data")
          => Len(render_calls) + (IF pc = "render_image" THEN 1 ELSE 0) = 1

C3_Witness ==
    /\ AirQualityFetchFailed
    /\ pc = "returned"
    /\ Len(render_calls) = 1
    /\ Len(template_params[1].data_points) = 7

\* C4: for a valid coordinate pair present in settings, the value 0 included,
\* no input error is raised and the forecast request carries the URL of the
\* query template with those two values.
C4_ValidCoordinatesAccepted ==
    (/\ pc # "idle"
     /\ {"latitude", "longitude"} \subseteq DOMAIN settings
     /\ settings.latitude \in -900 .. 900
     /\ settings.longitude \in -1800 .. 1800)
    => /\ error # InputErrorMessage
       /\ pc # "get_weather_data" => Len(http_log) >= 1
       /\ Len(http_log) >= 1
          => http_log[1].url = OPEN_METEO_URL(FloatStr(settings.latitude),
                                              FloatStr(settings.longitude))

(***************************************************************************)
(* Direct calls of the presenter's methods                                 *)
(***************************************************************************)
PipelineIdle ==
    /\ settings = << >>
    /\ device_config = None
    /\ http_log = << >>
    /\ weather_data = None
    /\ air_quality_data = JNull
    /\ template_params = None
    /\ render_calls = << >>
    /\ image = None
    /\ error = ""
    /\ ret = None

\* parse_forecast(daily, tz) on daily series of 0 .. MaxDays entries
InitForecast ==
    /\ PipelineIdle
    /\ pc = "call_parse_forecast"
    /\ host_tz \in TimezoneNames
    /\ \E n \in 0 .. MaxDays, start \in {3, 6}, base \in {-55, 187},
          tz \in TimezoneNames :
          \E codes \in [1 .. n -> {61, 100}] :
             arg = [daily |-> MakeDaily(n, start, codes, base, <<6, 5>>, <<17, 42>>),
                    tz |-> tz]

CallParseForecast ==
    /\ pc = "call_parse_forecast"
    /\ ret' = parse_forecast(arg.daily, arg.tz, host_tz)
    /\ pc' = "done"
    /\ UNCHANGED <<pipeline_vars, host_tz, arg>>

SpecForecast == InitForecast /\ [][CallParseForecast]_vars

\* parse_weather_data(data, air_quality, tz) with every weather code for
\* today and for the forecast days
InitIcons ==
    /\ PipelineIdle
    /\ pc = "call_parse_weather_data"
    /\ host_tz \in TimezoneNames
    /\ \E n \in {1, MaxDays}, today \in Codes, later \in Codes :
          arg = [data |->
                   MakeResponse(Some("Europe/Berlin"),
                                MakeDaily(n, 3,
                                          [i \in 1 .. n |-> IF i = 1 THEN today ELSE later],
                                          187, <<6, 5>>, <<17, 42>>),
                                24),
                 air_quality |-> JNull,
                 tz |-> "Europe/Berlin"]

CallParseWeatherData ==
    /\ pc = "call_parse_weather_data"
    /\ ret' = parse_weather_data(arg.data, arg.air_quality, arg.tz, host_tz)
    /\ pc' = "done"
    /\ UNCHANGED <<pipeline_vars, host_tz, arg>>

SpecIcons == InitIcons /\ [][CallParseWeatherData]_vars

\* parse_data_points(current, daily, tz, air_quality) with every shape of
\* the air_quality argument
InitDataPoints ==
    /\ PipelineIdle
    /\ pc = "call_parse_data_points"
    /\ host_tz \in TimezoneNames
    /\ \E tz \in TimezoneNames :
          \/ \E i \in DOMAIN AqMalformed :
                arg = [current |-> SampleCurrent,
                       daily |-> MakeDaily(MaxDays, 3, SampleCodes(MaxDays), 187,
                                           <<6, 5>>, <<17, 42>>),
                       tz |-> tz,
                       air_quality |-> AqMalformed[i]]
          \/ \E i \in DOMAIN AqBoolean :
                arg = [current |-> SampleCurrent,
                       daily |-> MakeDaily(MaxDays, 3, SampleCodes(MaxDays), 187,
                                           <<6, 5>>, <<17, 42>>),
                       tz |-> tz,
                       air_quality |-> AqBoolean[i]]
          \/ \E v \in AqiValues :
                arg = [current |-> SampleCurrent,
                       daily |-> MakeDaily(MaxDays, 3, SampleCodes(MaxDays), 187,
                                           <<6, 5>>, <<17, 42>>),
                       tz |-> tz,
                       air_quality |-> AqValid(JNum(v))]

CallParseDataPoints ==
    /\ pc = "call_parse_data_points"
    /\ ret' = parse_data_points(arg.current, arg.daily, arg.tz, host_tz,
                                arg.air_quality)
    /\ pc' = "done"
    /\ UNCHANGED <<pipeline_vars, host_tz, arg>>

SpecDataPoints == InitDataPoints /\ [][CallParseDataPoints]_vars

\* parse_data_points with every sunrise time of the day, on every host
InitSun ==
    /\ PipelineIdle
    /\ pc = "call_parse_data_points"
    /\ host_tz \in TimezoneNames
    /\ \E tz \in TimezoneNames, h \in 0 .. 23, m \in 0 .. 59 :
          arg = [current |-> SampleCurrent,
                 daily |-> MakeDaily(1, 3, <<61>>, 187,
                                     <<h, m>>, <<(h + 11) % 24, (m + 37) % 60>>),
                 tz |-> tz,
                 air_quality |-> JNull]

SpecSun == InitSun /\ [][CallParseDataPoints]_vars

\* get_aqi_description(aqi) on every AQI value
InitAqi ==
    /\ PipelineIdle
    /\ pc = "call_get_aqi_description"
    /\ host_tz = "UTC"
    /\ \E v \in AqiValues : arg = [aqi |-> JNum(v)]

CallGetAqiDescription ==
    /\ pc = "call_get_aqi_description"
    /\ ret' = get_aqi_description(arg.aqi)
    /\ pc' = "done"
    /\ UNCHANGED <<pipeline_vars, host_tz, arg>>

SpecAqi == InitAqi /\ [][CallGetAqiDescription]_vars

(***************************************************************************)
(* Properties of the presenter's methods                                   *)
(***************************************************************************)
IconPath(icon) == get_plugin_dir("icons/" \o icon \o ".png")

\* C5: for a daily series of n entries parse_forecast returns the entries of
\* the daily indices 1 .. min(5, n-1) in increasing order: min(5, max(0, n-1))
\* entries, at most 5, none of them built from index 0.
C5_ForecastSkipsTodayAtMostFive ==
    pc = "done"
    => LET daily == arg.daily
           n == Len(daily.time)
           expected == IF n - 1 < 0 THEN 0 ELSE IF n - 1 < 5 THEN n - 1 ELSE 5
       IN  /\ ret.exc = ""
           /\ Len(ret.val) = expected
           /\ Len(ret.val) <= 5
           /\ \A j \in 1 .. Len(ret.val) :
                 /\ ret.val[j].high = IntOf(daily.temperature_2m_max[j + 1])
                 /\ ret.val[j].low = IntOf(daily.temperature_2m_min[j + 1])
                 /\ ret.val[j].high # IntOf(daily.temperature_2m_max[1])
                 /\ ret.val[j].icon
                       = IconPath(IF daily.weathercode[j + 1] = 61 THEN "10d" ELSE "01d")

C5_Witness ==
    /\ pc = "done"
    /\ Len(arg.daily.time) > 6
    /\ Len(ret.val) = 5
    /\ arg.daily.weathercode[1] # arg.daily.weathercode[2]

\* the weather codes of a parse_weather_data call paired with the icon paths
\* it returned for them: today's, then one per forecast day
IconOutputs ==
    {<<arg.data.daily.weathercode[1], ret.val.current_day_icon>>}
    \cup {<<arg.data.daily.weathercode[j + 1], ret.val.forecast[j].icon>> :
             j \in DOMAIN ret.val.forecast}

\* the icon the specification lists for the codes of its bands other than
\* clear and snow
ListedIcon(c) ==
    CASE c \in {45, 48} -> "50d"
      [] c \in {51, 53, 55, 56, 57} -> "09d"
      [] c \in {61, 63, 65} -> "10d"
      [] c \in {66, 67} -> "13d"
      [] c \in 80 .. 82 -> "09d"
      [] c \in {85, 86} -> "13d"
      [] c \in {95, 96, 99} -> "11d"

ListedCodes == {45, 48, 51, 53, 55, 56, 57, 61, 63, 65, 66, 67, 85, 86, 95, 96, 99}
               \cup (80 .. 82)

ClearIcons == {IconPath("01d"), IconPath("02d"), IconPath("03d"), IconPath("04d")}

\* the bands both statements of C8 agree on
BandsCovered ==
    \A p \in IconOutputs :
       /\ p[1] \in 0 .. 3 => p[1] \in DOMAIN WEATHER_CODE_ICONS /\ p[2] \in ClearIcons
       /\ p[1] \in ListedCodes
          => p[1] \in DOMAIN WEATHER_CODE_ICONS /\ p[2] = IconPath(ListedIcon(p[1]))

\* C8 as stated: every code of every listed band, every integer of 71..77
\* included, is a key of the table and maps to its band's icon.
C8_EveryBandCodeMapped ==
    pc = "done"
    => /\ ret.exc = ""
       /\ BandsCovered
       /\ \A p \in IconOutputs :
             p[1] \in 71 .. 77
             => p[1] \in DOMAIN WEATHER_CODE_ICONS /\ p[2] = IconPath("13d")

\* C8 amended: as stated, with the snow band being the codes 71, 73, 75 and
\* 77; the codes 72, 74 and 76 are not keys and get the default icon.
C8_BandCodesMapped ==
    pc = "done"
    => /\ ret.exc = ""
       /\ BandsCovered
       /\ \A p \in IconOutputs :
             /\ p[1] \in {71, 73, 75, 77}
                => p[1] \in DOMAIN WEATHER_CODE_ICONS /\ p[2] = IconPath("13d")
             /\ p[1] \in {72, 74, 76}
                => p[1] \notin DOMAIN WEATHER_CODE_ICONS /\ p[2] = IconPath("01d")

C8_Witness ==
    /\ pc = "done"
    /\ arg.data.daily.weathercode[1] = 67
    /\ ret.val.current_day_icon = IconPath("13d")
    /\ Len(ret.val.forecast) = 5
    /\ arg.data.daily.weathercode[2] = 74
    /\ ret.val.forecast[1].icon = IconPath("01d")

\* C9: for today and for every forecast day, a code that is a key of the
\* table yields that key's icon (61 yields "10d", not the default) and a code
\* that is not a key (100, a negative code, 4, 44) yields the default "01d".
C9_IconLookupWithDefault ==
    pc = "done"
    => /\ ret.exc = ""
       /\ Cardinality({p[1] : p \in IconOutputs})
             = Cardinality({arg.data.daily.weathercode[i] :
                              i \in 1 .. Min(Len(arg.data.daily.weathercode), 6)})
       /\ \A p \in IconOutputs :
             /\ p[1] \in DOMAIN WEATHER_CODE_ICONS
                => p[2] = IconPath(WEATHER_CODE_ICONS[p[1]])
             /\ p[1] \notin DOMAIN WEATHER_CODE_ICONS => p[2] = IconPath("01d")
             /\ p[1] = 61 => p[2] = IconPath("10d") /\ p[2] # IconPath("01d")
             /\ p[1] \in {100, -1, 4, 44} => p[2] = IconPath("01d")

C9_Witness ==
    /\ pc = "done"
    /\ arg.data.daily.weathercode[1] = 100
    /\ ret.val.current_day_icon = IconPath("01d")
    /\ Len(ret.val.forecast) = 5
    /\ arg.data.daily.weathercode[6] = 61
    /\ ret.val.forecast[5].icon = IconPath("10d")

\* the first hourly AQI value of the air_quality argument is a number
\* int() converts (a JSON boolean is the integer 1 or 0 in Python)
AqiExtractable(aq) ==
    /\ aq.t = "dict"
    /\ "hourly" \in DOMAIN aq.v
    /\ aq.v.hourly.t = "dict"
    /\ "european_aqi" \in DOMAIN aq.v.hourly.v
    /\ aq.v.hourly.v.european_aqi.t = "list"
    /\ Len(aq.v.hourly.v.european_aqi.v) > 0
    /\ aq.v.hourly.v.european_aqi.v[1].t \in {"num", "bool"}

FixedLabels == <<"Sunrise", "Sunset", "Wind", "Humidity", "Pressure", "UV Index", "Rain">>

\* C6: for any air_quality argument parse_data_points raises nothing and
\* returns the seven fixed points in order, followed by an "Air Quality"
\* point exactly when the first hourly AQI value is extractable.
C6_AirQualityNeverFailsDataPoints ==
    pc = "done"
    => /\ ret.exc = ""
       /\ SubSeq(Labels(ret.val), 1, 7) = FixedLabels
       /\ IF AqiExtractable(arg.air_quality)
          THEN Labels(ret.val) = Append(FixedLabels, "Air Quality")
          ELSE Labels(ret.val) = FixedLabels
       /\ arg.air_quality.t \in {"null", "list", "str"} => Len(ret.val) = 7

C6_Witness ==
    /\ pc = "done"
    /\ arg.air_quality.t = "dict"
    /\ "hourly" \in DOMAIN arg.air_quality.v
    /\ ~AqiExtractable(arg.air_quality)
    /\ Len(ret.val) = 7

\* the clock reading of C7 for hour h and minute m
ClockReading(h, m) ==
    DecStr(IF h = 0 \/ h = 12 THEN 12 ELSE h % 12) \o ":" \o TwoDigits(m)

\* C7: whatever the host's timezone, a naive sunrise or sunset time h:m of
\* the location is emitted as the 12-hour reading of h:m with unit AM for
\* h < 12 and PM otherwise.
C7_SunTimesAreLocationLocal ==
    pc = "done"
    => LET sunrise == arg.daily.sunrise[1]
           sunset == arg.daily.sunset[1]
       IN  /\ ret.exc = ""
           /\ ret.val[1].measurement = ClockReading(sunrise.hour, sunrise.minute)
           /\ ret.val[1].unit = (IF sunrise.hour < 12 THEN "AM" ELSE "PM")
           /\ ret.val[2].measurement = ClockReading(sunset.hour, sunset.minute)
           /\ ret.val[2].unit = (IF sunset.hour < 12 THEN "AM" ELSE "PM")

BandRank(label) ==
    CASE label = "Good" -> 1 [] label = "Fair" -> 2 [] label = "Moderate" -> 3
      [] label = "Poor" -> 4 [] label = "Very Poor" -> 5

\* C10: get_aqi_description puts every number in one band with inclusive
\* upper bounds 20, 40, 60, 80; 45 is Moderate, 20 Good, 80 Poor, 81 Very
\* Poor; the label is monotone in the value.
C10_AqiBandsInclusive ==
    pc = "done"
    => LET v == arg.aqi.v
       IN  /\ ret.exc = ""
           /\ v <= 200 => ret.val = "Good"
           /\ (200 < v /\ v <= 400) => ret.val = "Fair"
           /\ (400 < v /\ v <= 600) => ret.val = "Moderate"
           /\ (600 < v /\ v <= 800) => ret.val = "Poor"
           /\ v > 800 => ret.val = "Very Poor"
           /\ v = 450 => ret.val = "Moderate"
           /\ v = 810 => ret.val = "Very Poor"
           /\ \A w \in AqiValues :
                 w <= v => BandRank(get_aqi_description(JNum(w)).val) <= BandRank(ret.val)

C10_Witness ==
    /\ pc = "done"
    /\ arg.aqi.v = 800
    /\ ret.val = "Poor"

====
